---------------------------- MODULE Spec2Model ----------------------------
(***************************************************************************)
(* Model of real_time_voice/voice_console.py: AudioProcessor (capture,     *)
(* send and playback workers around two thread-safe queues) and            *)
(* BasicVoiceAssistant (the control flow that reads events and drives the  *)
(* AudioProcessor).                                                        *)
(*                                                                         *)
(* The control flow runs on the asyncio event loop: one coroutine, one     *)
(* statement group at a time (pc / ret).  The workers are Python threads:  *)
(* each step of a worker may fall between any two steps of the control     *)
(* flow.  thread.join(timeout=1.0) returns when the thread has ended or    *)
(* when the timeout expires; time is not modelled, so a join of a live     *)
(* thread may return at any moment.                                        *)
(***************************************************************************)
EXTENDS Integers, Sequences, FiniteSets, TLC

\* ---- bounds of the model ------------------------------------------------
MaxEvents == 3      \* inbound events read before the channel ends
MaxDeltas == 2      \* RESPONSE_AUDIO_DELTA events among them
MaxMic == 2         \* frames the microphone delivers
MaxApiCalls == 3    \* calls made by the capture-line driver (SpecCaptureApi)

\* ---- values -------------------------------------------------------------
None == 0           \* Python None, for a stream or thread reference
Unstarted == -1     \* a Thread object whose start() raised

AnyKind == "*"      \* stands for an event of any kind

InfoKinds ==
  {"RESPONSE_CREATED", "RESPONSE_AUDIO_DONE", "RESPONSE_DONE", "ERROR",
   "CONVERSATION_ITEM_CREATED", "UNHANDLED"}

VARIABLES
  \* AudioProcessor fields
  is_capturing, is_playing, input_stream, output_stream,
  audio_queue, audio_send_queue,
  capture_thread, playback_thread, send_thread, loop,
  \* the Python threads started so far: kind, position, frame in hand
  threads,
  \* the audio device layer (PyAudio)
  audio, open_in, open_out, n_in, n_out, mic_reads, played,
  \* the connection and the event loop's scheduled coroutines
  channel, session_update_sent, loop_pending, sent_audio,
  \* BasicVoiceAssistant and its control flow
  session_ready, pc, ret,
  \* the events read so far whose branch calls the AudioProcessor, by kind
  n_session_updated, n_speech_started, n_speech_stopped, n_deltas,
  n_informational,
  \* the events the connection delivers next: <<AnyKind>> for any event at all,
  \* otherwise the kinds still to come, in order
  inbound,
  \* history, read by the properties only
  cancels_owed, cancels_failed,
  stops_returned, enq_epoch, tx_put, capture_starts, raised_in,
  api_calls, api_prev, api_cur

apVars ==
  <<is_capturing, is_playing, input_stream, output_stream, audio_queue,
    audio_send_queue, capture_thread, playback_thread, send_thread, loop>>
captureFields == <<is_capturing, input_stream, capture_thread, send_thread, loop>>
playbackFields == <<is_playing, output_stream, playback_thread>>
captureSide == <<captureFields, audio_send_queue>>
playbackSide == <<playbackFields, audio_queue>>
deviceVars == <<audio, open_in, open_out, n_in, n_out, mic_reads, played>>
channelVars == <<channel, session_update_sent, loop_pending, sent_audio>>
eventVars ==
  <<session_ready, n_session_updated, n_speech_started, n_speech_stopped,
    n_deltas, n_informational, inbound>>
apiHist == <<api_calls, api_prev, api_cur>>
histVars ==
  <<cancels_owed, cancels_failed, stops_returned, enq_epoch, tx_put, capture_starts,
    raised_in, apiHist>>
vars ==
  <<apVars, threads, deviceVars, channelVars, eventVars, pc, ret, histVars>>

\* ---- helpers ------------------------------------------------------------
Alive(t) == t \in DOMAIN threads /\ threads[t].pc # "done"
\* The process lives until start() has returned or raised: main() (lines
\* 515-522) then ends the process, and with it the daemon threads (lines 117,
\* 122, 215).
ProcessAlive == pc \notin {"done", "raised"}
ThreadsOf(k) == {t \in DOMAIN threads : threads[t].kind = k}
AliveOf(k) == {t \in ThreadsOf(k) : threads[t].pc # "done"}
Spawn(k) == Append(threads, [kind |-> k, pc |-> "loop", item |-> 0])
At(t, k, p) ==
  /\ ProcessAlive
  /\ t \in DOMAIN threads /\ threads[t].kind = k /\ threads[t].pc = p
Goto(t, p) == [threads EXCEPT ![t].pc = p]
GotoWith(t, p, f) == [threads EXCEPT ![t].pc = p, ![t].item = f]
Increasing(s) == \A i, j \in DOMAIN s : i < j => s[i] < s[j]

\* AudioProcessor.__init__ (and BasicVoiceAssistant.__init__) leave this state.
Init ==
  /\ is_capturing = FALSE /\ is_playing = FALSE
  /\ input_stream = None /\ output_stream = None
  /\ audio_queue = <<>> /\ audio_send_queue = <<>>
  /\ capture_thread = None /\ playback_thread = None /\ send_thread = None
  /\ loop = FALSE
  /\ threads = <<>>
  /\ audio = "none" /\ open_in = {} /\ open_out = {} /\ n_in = 0 /\ n_out = 0
  /\ mic_reads = 0 /\ played = <<>>
  /\ channel = "none" /\ session_update_sent = FALSE
  /\ loop_pending = <<>> /\ sent_audio = <<>>
  /\ session_ready = FALSE /\ pc = "connect" /\ ret = "none"
  /\ n_session_updated = 0 /\ n_speech_started = 0 /\ n_speech_stopped = 0
  /\ n_deltas = 0 /\ n_informational = 0 /\ inbound = <<AnyKind>>
  /\ cancels_owed = 0 /\ cancels_failed = 0
  /\ stops_returned = 0 /\ enq_epoch = <<>> /\ tx_put = <<>>
  /\ capture_starts = 0 /\ raised_in = "none"
  /\ api_calls = 0 /\ api_prev = "none" /\ api_cur = "none"

\* ---- leaving a coroutine of the AudioProcessor ----------------------------
\* A normal return resumes the caller at ret.
Return == pc' = ret /\ ret' = "none"

\* An exception leaving start_playback or start_capture.  Under start() it
\* passes _handle_event and _process_events (lines 397-399: log, raise), leaves
\* the "async with connect" block, which closes the connection, and reaches
\* "except Exception: ... raise" (lines 347-349): start() ends by raising and
\* the statements after the try block (lines 351-353) are not executed.  A
\* direct caller of the AudioProcessor receives the exception.
Propagate(method) ==
  /\ raised_in' = method
  /\ IF ret = "api_idle"
     THEN pc' = "api_idle" /\ ret' = "none" /\ UNCHANGED channel
     ELSE pc' = "raised" /\ ret' = "none" /\ channel' = "closed"

\* ---- AudioProcessor.start_playback (lines 197-223) -------------------------
\* lines 199-202: the guard and the flag
start_playback_enter ==
  /\ pc = "start_playback"
  /\ IF is_playing
     THEN Return /\ UNCHANGED is_playing
     ELSE pc' = "sp_open" /\ is_playing' = TRUE /\ UNCHANGED ret
  /\ UNCHANGED <<input_stream, output_stream, audio_queue, audio_send_queue,
                 capture_thread, playback_thread, send_thread, loop, is_capturing,
                 threads, deviceVars, channelVars, eventVars, histVars>>

\* lines 205-211: audio.open(output=True) succeeds
start_playback_open ==
  /\ pc = "sp_open"
  /\ n_out' = n_out + 1
  /\ open_out' = open_out \cup {n_out + 1}
  /\ output_stream' = n_out + 1
  /\ pc' = "sp_spawn"
  /\ UNCHANGED <<is_capturing, is_playing, input_stream, audio_queue,
                 audio_send_queue, capture_thread, playback_thread, send_thread,
                 loop, threads, audio, open_in, n_in, mic_reads, played,
                 channelVars, eventVars, ret, histVars>>

\* lines 205-211 raise: lines 220-223 reset the flag and re-raise
start_playback_open_fails ==
  /\ pc = "sp_open"
  /\ is_playing' = FALSE
  /\ Propagate("start_playback")
  /\ UNCHANGED <<is_capturing, input_stream, output_stream, audio_queue,
                 audio_send_queue, capture_thread, playback_thread, send_thread,
                 loop, threads, deviceVars, session_update_sent, loop_pending,
                 sent_audio, eventVars, cancels_owed, cancels_failed,
                 stops_returned, enq_epoch, tx_put, capture_starts, apiHist>>

\* lines 214-216: the playback thread is created and started
start_playback_spawn ==
  /\ pc = "sp_spawn"
  /\ threads' = Spawn("playback")
  /\ playback_thread' = Len(threads) + 1
  /\ Return
  /\ UNCHANGED <<is_capturing, is_playing, input_stream, output_stream,
                 audio_queue, audio_send_queue, capture_thread, send_thread, loop,
                 deviceVars, channelVars, eventVars, histVars>>

\* line 216 raises (the thread cannot be started): the Thread object stays in
\* playback_thread, the stream opened at line 205 stays open and referenced,
\* lines 220-223 reset the flag and re-raise
start_playback_spawn_fails ==
  /\ pc = "sp_spawn"
  /\ playback_thread' = Unstarted
  /\ is_playing' = FALSE
  /\ Propagate("start_playback")
  /\ UNCHANGED <<is_capturing, input_stream, output_stream, audio_queue,
                 audio_send_queue, capture_thread, send_thread, loop, threads,
                 deviceVars, session_update_sent, loop_pending, sent_audio, eventVars, cancels_owed, cancels_failed, stops_returned,
                 enq_epoch, tx_put, capture_starts, apiHist>>

\* ---- AudioProcessor.stop_playback (lines 247-269) --------------------------
\* lines 249-252: the guard and the flag
stop_playback_enter ==
  /\ pc = "stop_playback"
  /\ IF ~is_playing
     THEN Return /\ stops_returned' = stops_returned + 1 /\ UNCHANGED is_playing
     ELSE /\ pc' = "xp_drain" /\ is_playing' = FALSE
          /\ UNCHANGED <<ret, stops_returned>>
  /\ UNCHANGED <<captureSide, output_stream, playback_thread, audio_queue,
                 threads, deviceVars, channelVars, eventVars, cancels_owed, cancels_failed,
                 enq_epoch, tx_put, capture_starts, raised_in, apiHist>>

\* stop_playback without the clearing loop of lines 255-259: what C4 rests on
stop_playback_drain_skipped ==
  /\ pc = "xp_drain"
  /\ pc' = "xp_close"
  /\ UNCHANGED <<apVars, threads, deviceVars, channelVars, eventVars, ret,
                 histVars>>

\* lines 255-259: one get_nowait() of the clearing loop, or its exit
stop_playback_drain ==
  /\ pc = "xp_drain"
  /\ IF audio_queue # <<>>
     THEN audio_queue' = Tail(audio_queue) /\ pc' = "xp_drain"
     ELSE audio_queue' = audio_queue /\ pc' = "xp_close"
  /\ UNCHANGED <<captureSide, playbackFields, threads, deviceVars, channelVars,
                 eventVars, ret, histVars>>

\* stop_playback without the close() of line 263: what C9 rests on
stop_playback_close_skipped ==
  /\ pc = "xp_close"
  /\ pc' = (IF output_stream # None THEN "xp_clear" ELSE "xp_join")
  /\ UNCHANGED <<apVars, threads, deviceVars, channelVars, eventVars, ret,
                 histVars>>

\* lines 261-263: stop_stream() and close() of the output stream
stop_playback_close ==
  /\ pc = "xp_close"
  /\ IF output_stream # None
     THEN open_out' = open_out \ {output_stream} /\ pc' = "xp_clear"
     ELSE open_out' = open_out /\ pc' = "xp_join"
  /\ UNCHANGED <<apVars, threads, audio, open_in, n_in, n_out, mic_reads, played,
                 channelVars, eventVars, ret, histVars>>

\* line 264: self.output_stream = None
stop_playback_clear ==
  /\ pc = "xp_clear"
  /\ output_stream' = None
  /\ pc' = "xp_join"
  /\ UNCHANGED <<captureSide, is_playing, playback_thread, audio_queue, threads,
                 deviceVars, channelVars, eventVars, ret, histVars>>

\* lines 266-269: join(timeout=1.0) returns because the thread has ended (or
\* there is no thread)
stop_playback_join ==
  /\ pc = "xp_join"
  /\ ~Alive(playback_thread)
  /\ Return
  /\ stops_returned' = stops_returned + 1
  /\ UNCHANGED <<apVars, threads, deviceVars, channelVars, eventVars,
                 cancels_owed, cancels_failed, enq_epoch, tx_put, capture_starts, raised_in,
                 apiHist>>

\* join() without a timeout returns only once the thread has ended: what C15
\* rests on
stop_playback_join_untimed ==
  /\ pc = "xp_join"
  /\ ~Alive(playback_thread)
  /\ Return
  /\ stops_returned' = stops_returned + 1
  /\ UNCHANGED <<apVars, threads, deviceVars, channelVars, eventVars,
                 cancels_owed, cancels_failed, enq_epoch, tx_put,
                 capture_starts, raised_in, apiHist>>

\* lines 266-269: join(timeout=1.0) returns on the timeout, the thread alive
stop_playback_join_timeout ==
  /\ pc = "xp_join"
  /\ Alive(playback_thread)
  /\ Return
  /\ stops_returned' = stops_returned + 1
  /\ UNCHANGED <<apVars, threads, deviceVars, channelVars, eventVars,
                 cancels_owed, cancels_failed, enq_epoch, tx_put, capture_starts, raised_in,
                 apiHist>>

\* ---- AudioProcessor._playback_audio_thread (lines 225-240) ------------------
\* line 227: while self.is_playing
playback_loop(t) ==
  /\ At(t, "playback", "loop")
  /\ threads' = Goto(t, IF is_playing THEN "get" ELSE "done")
  /\ UNCHANGED <<apVars, deviceVars, channelVars, eventVars, pc, ret, histVars>>

\* line 230: audio_queue.get(timeout=0.1) returns the head, or raises
\* queue.Empty after the timeout (lines 235-236: continue)
playback_get(t) ==
  /\ At(t, "playback", "get")
  /\ IF audio_queue # <<>>
     THEN /\ threads' = GotoWith(t, "check", Head(audio_queue))
          /\ audio_queue' = Tail(audio_queue)
     ELSE /\ threads' = Goto(t, "loop")
          /\ audio_queue' = audio_queue
  /\ UNCHANGED <<captureSide, playbackFields, deviceVars, channelVars,
                 eventVars, pc, ret, histVars>>

\* line 232: if audio_data and self.output_stream and self.is_playing
playback_check(t) ==
  /\ At(t, "playback", "check")
  /\ threads' = IF output_stream # None /\ is_playing
                THEN Goto(t, "write") ELSE GotoWith(t, "loop", 0)
  /\ UNCHANGED <<apVars, deviceVars, channelVars, eventVars, pc, ret, histVars>>

\* The frame a write puts on the device, with the number of stop_playback()
\* calls that had returned by then.
Written(f) == Append(played, <<f, stops_returned>>)

\* line 233: self.output_stream.write(audio_data).  self.output_stream is read
\* again: None has no write (AttributeError) and a closed stream raises; both
\* reach lines 237-240 and end the thread.
playback_write(t) ==
  /\ At(t, "playback", "write")
  /\ IF output_stream # None /\ output_stream \in open_out
     THEN /\ played' = Written(threads[t].item)
          /\ threads' = GotoWith(t, "loop", 0)
     ELSE /\ played' = played
          /\ threads' = GotoWith(t, "done", 0)
  /\ UNCHANGED <<apVars, audio, open_in, open_out, n_in, n_out, mic_reads,
                 channelVars, eventVars, pc, ret, histVars>>

\* line 233 raises on an open stream (device failure): lines 237-240
playback_write_fails(t) ==
  /\ At(t, "playback", "write")
  /\ output_stream # None /\ output_stream \in open_out
  /\ threads' = GotoWith(t, "done", 0)
  /\ UNCHANGED <<apVars, deviceVars, channelVars, eventVars, pc, ret, histVars>>

\* ---- AudioProcessor.start_capture (lines 93-130) ---------------------------
\* start_capture without the guard of lines 95-96: what C5 rests on
start_capture_enter_unguarded ==
  /\ pc = "start_capture"
  /\ pc' = "sc_open" /\ loop' = TRUE /\ is_capturing' = TRUE
  /\ capture_starts' = capture_starts + 1
  /\ UNCHANGED <<input_stream, capture_thread, send_thread, audio_send_queue,
                 playbackSide, threads, deviceVars, channelVars, eventVars, ret,
                 cancels_owed, cancels_failed, stops_returned, enq_epoch, tx_put, raised_in,
                 apiHist>>

\* lines 95-101: the guard, the event loop reference and the flag
start_capture_enter ==
  /\ pc = "start_capture"
  /\ IF is_capturing
     THEN Return /\ UNCHANGED <<is_capturing, loop, capture_starts>>
     ELSE /\ pc' = "sc_open" /\ loop' = TRUE /\ is_capturing' = TRUE
          /\ capture_starts' = capture_starts + 1 /\ UNCHANGED ret
  /\ UNCHANGED <<input_stream, capture_thread, send_thread, audio_send_queue,
                 playbackSide, threads, deviceVars, channelVars, eventVars,
                 cancels_owed, cancels_failed, stops_returned, enq_epoch, tx_put, raised_in,
                 apiHist>>

\* lines 104-113: audio.open(input=True) succeeds; open() starts the stream, so
\* start_stream() at line 113 finds it running
start_capture_open ==
  /\ pc = "sc_open"
  /\ n_in' = n_in + 1
  /\ open_in' = open_in \cup {n_in + 1}
  /\ input_stream' = n_in + 1
  /\ pc' = "sc_spawn_capture"
  /\ UNCHANGED <<is_capturing, capture_thread, send_thread, loop,
                 audio_send_queue, playbackSide, threads, audio, open_out, n_out,
                 mic_reads, played, channelVars, eventVars, ret, histVars>>

\* lines 104-111 raise: lines 127-130 reset the flag and re-raise
start_capture_open_fails ==
  /\ pc = "sc_open"
  /\ is_capturing' = FALSE
  /\ Propagate("start_capture")
  /\ UNCHANGED <<input_stream, capture_thread, send_thread, loop,
                 audio_send_queue, playbackSide, threads, deviceVars,
                 session_update_sent, loop_pending, sent_audio,
                 eventVars, cancels_owed, cancels_failed, stops_returned, enq_epoch, tx_put,
                 capture_starts, apiHist>>

\* lines 116-118: the capture thread is created and started
start_capture_spawn_capture ==
  /\ pc = "sc_spawn_capture"
  /\ threads' = Spawn("capture")
  /\ capture_thread' = Len(threads) + 1
  /\ pc' = "sc_spawn_send"
  /\ UNCHANGED <<is_capturing, input_stream, send_thread, loop,
                 audio_send_queue, playbackSide, deviceVars, channelVars,
                 eventVars, ret, histVars>>

\* line 118 raises: the stream opened at line 104 stays open and referenced,
\* lines 127-130 reset the flag and re-raise
start_capture_spawn_capture_fails ==
  /\ pc = "sc_spawn_capture"
  /\ capture_thread' = Unstarted
  /\ is_capturing' = FALSE
  /\ Propagate("start_capture")
  /\ UNCHANGED <<input_stream, send_thread, loop, audio_send_queue,
                 playbackSide, threads, deviceVars, session_update_sent,
                 loop_pending, sent_audio, eventVars,
                 cancels_owed, cancels_failed, stops_returned, enq_epoch, tx_put, capture_starts,
                 apiHist>>

\* lines 121-125: the send thread is created and started
start_capture_spawn_send ==
  /\ pc = "sc_spawn_send"
  /\ threads' = Spawn("send")
  /\ send_thread' = Len(threads) + 1
  /\ Return
  /\ UNCHANGED <<is_capturing, input_stream, capture_thread, loop,
                 audio_send_queue, playbackSide, deviceVars, channelVars,
                 eventVars, histVars>>

\* line 123 raises: the capture thread started at line 118 is running, the
\* stream stays open, lines 127-130 reset the flag and re-raise
start_capture_spawn_send_fails ==
  /\ pc = "sc_spawn_send"
  /\ send_thread' = Unstarted
  /\ is_capturing' = FALSE
  /\ Propagate("start_capture")
  /\ UNCHANGED <<input_stream, capture_thread, loop, audio_send_queue,
                 playbackSide, threads, deviceVars, session_update_sent,
                 loop_pending, sent_audio, eventVars,
                 cancels_owed, cancels_failed, stops_returned, enq_epoch, tx_put, capture_starts,
                 apiHist>>

\* ---- AudioProcessor.stop_capture (lines 170-195) ---------------------------
\* stop_capture without the guard of lines 172-173: what C6 rests on
stop_capture_enter_unguarded ==
  /\ pc = "stop_capture"
  /\ pc' = "xc_close" /\ is_capturing' = FALSE
  /\ UNCHANGED <<input_stream, capture_thread, send_thread, loop,
                 audio_send_queue, playbackSide, threads, deviceVars,
                 channelVars, eventVars, ret, histVars>>

\* lines 172-175: the guard and the flag
stop_capture_enter ==
  /\ pc = "stop_capture"
  /\ IF ~is_capturing
     THEN Return /\ UNCHANGED is_capturing
     ELSE pc' = "xc_close" /\ is_capturing' = FALSE /\ UNCHANGED ret
  /\ UNCHANGED <<input_stream, capture_thread, send_thread, loop,
                 audio_send_queue, playbackSide, threads, deviceVars,
                 channelVars, eventVars, histVars>>

\* lines 177-179: stop_stream() and close() of the input stream
stop_capture_close ==
  /\ pc = "xc_close"
  /\ IF input_stream # None
     THEN open_in' = open_in \ {input_stream} /\ pc' = "xc_clear"
     ELSE open_in' = open_in /\ pc' = "xc_join_capture"
  /\ UNCHANGED <<apVars, threads, audio, open_out, n_in, n_out, mic_reads, played,
                 channelVars, eventVars, ret, histVars>>

\* line 180: self.input_stream = None
stop_capture_clear ==
  /\ pc = "xc_clear"
  /\ input_stream' = None
  /\ pc' = "xc_join_capture"
  /\ UNCHANGED <<is_capturing, capture_thread, send_thread, loop,
                 audio_send_queue, playbackSide, threads, deviceVars,
                 channelVars, eventVars, ret, histVars>>

\* lines 182-183: capture_thread.join(timeout=1.0), the thread ended or not
stop_capture_join_capture ==
  /\ pc = "xc_join_capture"
  /\ ~Alive(capture_thread)
  /\ pc' = "xc_join_send"
  /\ UNCHANGED <<apVars, threads, deviceVars, channelVars, eventVars, ret,
                 histVars>>

stop_capture_join_capture_timeout ==
  /\ pc = "xc_join_capture"
  /\ Alive(capture_thread)
  /\ pc' = "xc_join_send"
  /\ UNCHANGED <<apVars, threads, deviceVars, channelVars, eventVars, ret,
                 histVars>>

\* lines 185-186: send_thread.join(timeout=1.0), the thread ended or not
stop_capture_join_send ==
  /\ pc = "xc_join_send"
  /\ ~Alive(send_thread)
  /\ pc' = "xc_drain"
  /\ UNCHANGED <<apVars, threads, deviceVars, channelVars, eventVars, ret,
                 histVars>>

stop_capture_join_send_timeout ==
  /\ pc = "xc_join_send"
  /\ Alive(send_thread)
  /\ pc' = "xc_drain"
  /\ UNCHANGED <<apVars, threads, deviceVars, channelVars, eventVars, ret,
                 histVars>>

\* lines 188-195: one get_nowait() of the clearing loop, or its exit and the
\* return
stop_capture_drain ==
  /\ pc = "xc_drain"
  /\ IF audio_send_queue # <<>>
     THEN audio_send_queue' = Tail(audio_send_queue) /\ UNCHANGED <<pc, ret>>
     ELSE audio_send_queue' = audio_send_queue /\ Return
  /\ UNCHANGED <<captureFields, playbackSide, threads, deviceVars, channelVars,
                 eventVars, histVars>>

\* ---- AudioProcessor._capture_audio_thread (lines 132-147) -------------------
\* line 134: while self.is_capturing and self.input_stream
capture_loop(t) ==
  /\ At(t, "capture", "loop")
  /\ threads' = Goto(t, IF is_capturing /\ input_stream # None
                        THEN "read" ELSE "done")
  /\ UNCHANGED <<apVars, deviceVars, channelVars, eventVars, pc, ret, histVars>>

\* line 137: the blocking read returns the next frame of the microphone
capture_read(t) ==
  /\ At(t, "capture", "read")
  /\ input_stream # None /\ input_stream \in open_in
  /\ mic_reads < MaxMic
  /\ mic_reads' = mic_reads + 1
  /\ threads' = GotoWith(t, "check", mic_reads + 1)
  /\ UNCHANGED <<apVars, audio, open_in, open_out, n_in, n_out, played,
                 channelVars, eventVars, pc, ret, histVars>>

\* line 137 raises: self.input_stream is read again and is None
\* (AttributeError) or closed, or the device fails; lines 144-147 end the
\* thread
capture_read_fails(t) ==
  /\ At(t, "capture", "read")
  /\ threads' = Goto(t, "done")
  /\ UNCHANGED <<apVars, deviceVars, channelVars, eventVars, pc, ret, histVars>>

\* line 139: if audio_data and self.is_capturing
capture_check(t) ==
  /\ At(t, "capture", "check")
  /\ threads' = IF is_capturing THEN Goto(t, "put") ELSE GotoWith(t, "loop", 0)
  /\ UNCHANGED <<apVars, deviceVars, channelVars, eventVars, pc, ret, histVars>>

\* line 141: base64.b64encode(audio_data).decode("utf-8"), the transport form
\* of a frame
b64encode(f) == [b64 |-> f]

\* line 142: the put on the send queue, at its tail
\* a last-in-first-out send queue: what C10 rests on
SendQueuePutLifo(q, x) == <<x>> \o q

SendQueuePut(q, x) == Append(q, x)

\* lines 141-142
capture_put(t) ==
  /\ At(t, "capture", "put")
  /\ audio_send_queue' = SendQueuePut(audio_send_queue, b64encode(threads[t].item))
  /\ tx_put' = Append(tx_put, threads[t].item)
  /\ threads' = GotoWith(t, "loop", 0)
  /\ UNCHANGED <<captureFields, playbackSide, deviceVars, channelVars,
                 eventVars, pc, ret, cancels_owed, cancels_failed, stops_returned, enq_epoch,
                 capture_starts, raised_in, apiHist>>

\* ---- AudioProcessor._send_audio_thread (lines 149-168) ----------------------
\* line 151: while self.is_capturing
send_loop(t) ==
  /\ At(t, "send", "loop")
  /\ threads' = Goto(t, IF is_capturing THEN "get" ELSE "done")
  /\ UNCHANGED <<apVars, deviceVars, channelVars, eventVars, pc, ret, histVars>>

\* line 154: audio_send_queue.get(timeout=0.1) returns the head, or raises
\* queue.Empty after the timeout (lines 163-164: continue)
send_get(t) ==
  /\ At(t, "send", "get")
  /\ IF audio_send_queue # <<>>
     THEN /\ threads' = GotoWith(t, "check", Head(audio_send_queue))
          /\ audio_send_queue' = Tail(audio_send_queue)
     ELSE /\ threads' = Goto(t, "loop")
          /\ audio_send_queue' = audio_send_queue
  /\ UNCHANGED <<captureFields, playbackSide, deviceVars, channelVars,
                 eventVars, pc, ret, histVars>>

\* line 156: if audio_base64 and self.is_capturing and self.loop
send_check(t) ==
  /\ At(t, "send", "check")
  /\ threads' = IF is_capturing /\ loop
                THEN Goto(t, "schedule") ELSE GotoWith(t, "loop", 0)
  /\ UNCHANGED <<apVars, deviceVars, channelVars, eventVars, pc, ret, histVars>>

\* lines 158-161: run_coroutine_threadsafe(input_audio_buffer.append(...)):
\* the coroutine is handed to the event loop and the thread goes on
send_schedule(t) ==
  /\ At(t, "send", "schedule")
  /\ loop_pending' = Append(loop_pending, threads[t].item)
  /\ threads' = GotoWith(t, "loop", 0)
  /\ UNCHANGED <<apVars, deviceVars, channel, session_update_sent, sent_audio, eventVars, pc, ret, histVars>>

\* ---- the event loop ---------------------------------------------------------
\* The control flow is suspended in an await that yields to the loop: the read
\* of the next event (line 392), response.cancel() (line 425), or an await of
\* a direct caller of the AudioProcessor.
Suspended == pc \in {"await_event", "cancel", "api_idle"}

\* The loop runs the oldest scheduled coroutine of line 159: the audio-append
\* command goes out on the connection.
loop_run_append ==
  /\ Suspended
  /\ channel = "open"
  /\ loop_pending # <<>>
  /\ sent_audio' = Append(sent_audio, Head(loop_pending))
  /\ loop_pending' = Tail(loop_pending)
  /\ UNCHANGED <<apVars, threads, deviceVars, channel, session_update_sent, eventVars, pc, ret, histVars>>

\* ---- BasicVoiceAssistant.start (lines 305-353) ------------------------------
\* lines 311-326: the connection is established and AudioProcessor(conn)
\* acquires the audio subsystem (line 68)
connect_ok ==
  /\ pc = "connect"
  /\ channel' = "open"
  /\ audio' = "acquired"
  /\ pc' = "setup_session"
  /\ UNCHANGED <<apVars, threads, open_in, open_out, n_in, n_out, mic_reads,
                 played, session_update_sent, loop_pending, sent_audio, eventVars, ret, histVars>>

\* line 311 raises: lines 347-349 log and re-raise
connect_fails ==
  /\ pc = "connect"
  /\ pc' = "raised"
  /\ UNCHANGED <<apVars, threads, deviceVars, channelVars, eventVars, ret,
                 cancels_owed, cancels_failed, stops_returned, enq_epoch, tx_put, capture_starts, raised_in,
                 apiHist>>

\* start() starts capture right after the session update instead of waiting
\* for SESSION_UPDATED: what C21 rests on
setup_session_starts_capture ==
  /\ pc = "setup_session"
  /\ session_update_sent' = TRUE
  /\ pc' = "start_capture" /\ ret' = "await_event"
  /\ UNCHANGED <<apVars, threads, deviceVars, channel, loop_pending, sent_audio,
                 eventVars, histVars>>

\* lines 329, 355-385: _setup_session sends the session update; line 332 then
\* calls start_playback, and _process_events (line 342) follows it
setup_session ==
  /\ pc = "setup_session"
  /\ session_update_sent' = TRUE
  /\ pc' = "start_playback" /\ ret' = "await_event"
  /\ UNCHANGED <<apVars, threads, deviceVars, channel, loop_pending, sent_audio, eventVars, histVars>>

\* line 383 raises: the "async with" block closes the connection, lines
\* 347-349 log and re-raise
setup_session_fails ==
  /\ pc = "setup_session"
  /\ pc' = "raised"
  /\ channel' = "closed"
  /\ UNCHANGED <<apVars, threads, deviceVars, session_update_sent, loop_pending,
                 sent_audio, eventVars, ret, cancels_owed, cancels_failed,
                 stops_returned, enq_epoch, tx_put, capture_starts, raised_in, apiHist>>

\* lines 507-512 raise KeyboardInterrupt in the control flow on SIGINT or
\* SIGTERM; line 395 (in _process_events) or line 344 catches it, the
\* connection is closed and the cleanup of lines 351-353 follows
interrupt ==
  /\ pc \in {"setup_session", "await_event"}
  /\ pc' = "cleanup"
  /\ channel' = "closed"
  /\ UNCHANGED <<apVars, threads, deviceVars, session_update_sent, loop_pending,
                 sent_audio, eventVars, ret, cancels_owed, cancels_failed,
                 stops_returned, enq_epoch, tx_put, capture_starts, raised_in, apiHist>>

\* ---- BasicVoiceAssistant._process_events (lines 387-399) --------------------
\* line 392: the event sequence ends (the channel closed); the "async with"
\* block is left and the cleanup of lines 351-353 follows
channel_closed ==
  /\ pc = "await_event"
  /\ IF inbound = <<>> THEN TRUE ELSE Head(inbound) = AnyKind
  /\ pc' = "cleanup"
  /\ channel' = "ended"
  /\ UNCHANGED <<apVars, threads, deviceVars, session_update_sent, loop_pending,
                 sent_audio, eventVars, ret, cancels_owed, cancels_failed,
                 stops_returned, enq_epoch, tx_put, capture_starts, raised_in, apiHist>>

\* line 392 raises: lines 397-399 and 347-349 log and re-raise
read_fails ==
  /\ pc = "await_event"
  /\ pc' = "raised"
  /\ channel' = "closed"
  /\ UNCHANGED <<apVars, threads, deviceVars, session_update_sent, loop_pending,
                 sent_audio, eventVars, ret, cancels_owed, cancels_failed,
                 stops_returned, enq_epoch, tx_put, capture_starts, raised_in, apiHist>>

\* ---- BasicVoiceAssistant._handle_event (lines 401-459) ----------------------
NEvents ==
  n_session_updated + n_speech_started + n_speech_stopped + n_deltas
    + n_informational

\* an event is read while another one is still being handled: what C18 rests on
DispatchEarly(kind) ==
  /\ pc \in {"await_event", "cancel", "xp_join", "sc_spawn_send"}
  /\ inbound # <<>>
  /\ \/ Head(inbound) = AnyKind /\ NEvents < MaxEvents
     \/ Head(inbound) = kind

\* line 392 delivers the next event, of the given kind, and line 393 calls
\* _handle_event with it
Dispatch(kind) ==
  /\ pc = "await_event"
  /\ inbound # <<>>
  /\ \/ Head(inbound) = AnyKind /\ NEvents < MaxEvents
     \/ Head(inbound) = kind

\* what is left to come once the event is read
Consume == IF Head(inbound) = AnyKind THEN inbound ELSE Tail(inbound)

\* lines 409-414: SESSION_UPDATED
handle_session_updated ==
  /\ Dispatch("SESSION_UPDATED")
  /\ inbound' = Consume
  /\ n_session_updated' = n_session_updated + 1
  /\ session_ready' = TRUE
  /\ pc' = "start_capture" /\ ret' = "await_event"
  /\ UNCHANGED <<apVars, threads, deviceVars, channelVars, n_speech_started,
                 n_speech_stopped, n_deltas, n_informational, histVars>>

\* lines 416-421: INPUT_AUDIO_BUFFER_SPEECH_STARTED, up to the call of
\* stop_playback
handle_speech_started ==
  /\ Dispatch("INPUT_AUDIO_BUFFER_SPEECH_STARTED")
  /\ inbound' = Consume
  /\ n_speech_started' = n_speech_started + 1
  /\ pc' = "stop_playback" /\ ret' = "cancel"
  /\ cancels_owed' = cancels_owed + 1
  /\ UNCHANGED <<apVars, threads, deviceVars, channelVars, session_ready,
                 n_session_updated, n_speech_stopped, n_deltas, n_informational,
                 cancels_failed, stops_returned, enq_epoch, tx_put,
                 capture_starts, raised_in, apiHist>>

\* lines 423-425: conn.response.cancel() is awaited.  cancels_owed is raised
\* when a SPEECH_STARTED handler begins and lowered by each cancel command.
response_cancel ==
  /\ pc = "cancel"
  /\ cancels_owed' = cancels_owed - 1
  /\ pc' = "await_event"
  /\ UNCHANGED <<apVars, threads, deviceVars, channelVars, eventVars, ret,
                 cancels_failed, stops_returned, enq_epoch, tx_put,
                 capture_starts, raised_in, apiHist>>

\* the exception of line 425 leaves the handler and start(): what C16 rests on
response_cancel_fails_fatal ==
  /\ pc = "cancel"
  /\ cancels_owed' = cancels_owed - 1
  /\ cancels_failed' = cancels_failed + 1
  /\ pc' = "raised" /\ channel' = "closed"
  /\ UNCHANGED <<apVars, threads, deviceVars, session_update_sent, loop_pending,
                 sent_audio, eventVars, ret, stops_returned, enq_epoch, tx_put,
                 capture_starts, raised_in, apiHist>>

\* line 425 raises: lines 426-427 log the exception at debug level and drop
\* it; cancels_failed counts these
response_cancel_fails ==
  /\ pc = "cancel"
  /\ cancels_owed' = cancels_owed - 1
  /\ cancels_failed' = cancels_failed + 1
  /\ pc' = "await_event"
  /\ UNCHANGED <<apVars, threads, deviceVars, channelVars, eventVars, ret,
                 stops_returned, enq_epoch, tx_put, capture_starts, raised_in,
                 apiHist>>

\* lines 429-434: INPUT_AUDIO_BUFFER_SPEECH_STOPPED
handle_speech_stopped ==
  /\ Dispatch("INPUT_AUDIO_BUFFER_SPEECH_STOPPED")
  /\ inbound' = Consume
  /\ n_speech_stopped' = n_speech_stopped + 1
  /\ pc' = "start_playback" /\ ret' = "await_event"
  /\ UNCHANGED <<apVars, threads, deviceVars, channelVars, session_ready,
                 n_session_updated, n_speech_started, n_deltas, n_informational,
                 histVars>>

\* queue_audio without the test of line 244: what C11 rests on
queue_audio_unguarded(q, f) == Append(q, f)

\* AudioProcessor.queue_audio (lines 242-245)
queue_audio(q, f) == IF is_playing THEN Append(q, f) ELSE q

\* lines 439-442: RESPONSE_AUDIO_DELTA; the deltas are numbered as they
\* arrive, and enq_epoch keeps for each the number of stop_playback() calls
\* that had returned when queue_audio accepted it (-1: not accepted)
handle_audio_delta ==
  /\ Dispatch("RESPONSE_AUDIO_DELTA")
  /\ Head(inbound) = AnyKind => n_deltas < MaxDeltas
  /\ inbound' = Consume
  /\ n_deltas' = n_deltas + 1
  /\ audio_queue' = queue_audio(audio_queue, n_deltas + 1)
  /\ enq_epoch' = Append(enq_epoch, IF is_playing THEN stops_returned ELSE -1)
  /\ UNCHANGED <<captureSide, playbackFields, threads, deviceVars, channelVars,
                 session_ready, n_session_updated, n_speech_started,
                 n_speech_stopped, n_informational, pc, ret, cancels_owed,
                 cancels_failed, stops_returned, tx_put, capture_starts,
                 raised_in, apiHist>>

\* an ERROR event ends the run: what C17 rests on
handle_informational_fatal ==
  /\ \E kind \in InfoKinds : Dispatch(kind)
  /\ inbound' = Consume
  /\ n_informational' = n_informational + 1
  /\ pc' = "cleanup" /\ channel' = "closed"
  /\ UNCHANGED <<apVars, threads, deviceVars, session_update_sent, loop_pending,
                 sent_audio, session_ready, n_session_updated, n_speech_started,
                 n_speech_stopped, n_deltas, ret, histVars>>

\* lines 436-437 and 444-459: the branches that only log or print
handle_informational ==
  /\ \E kind \in InfoKinds : Dispatch(kind)
  /\ inbound' = Consume
  /\ n_informational' = n_informational + 1
  /\ UNCHANGED <<apVars, threads, deviceVars, channelVars, session_ready,
                 n_session_updated, n_speech_started, n_speech_stopped, n_deltas,
                 pc, ret, histVars>>

\* ---- AudioProcessor.cleanup (lines 271-280), called at lines 351-353 --------
\* line 273: await self.stop_capture()
cleanup_stop_capture ==
  /\ pc = "cleanup"
  /\ pc' = "stop_capture" /\ ret' = "cleanup_stop_playback"
  /\ UNCHANGED <<apVars, threads, deviceVars, channelVars, eventVars, histVars>>

\* line 274: await self.stop_playback()
cleanup_stop_playback ==
  /\ pc = "cleanup_stop_playback"
  /\ pc' = "stop_playback" /\ ret' = "cleanup_terminate"
  /\ UNCHANGED <<apVars, threads, deviceVars, channelVars, eventVars, histVars>>

\* lines 276-280: audio.terminate() and executor.shutdown(); start() returns
cleanup_terminate ==
  /\ pc = "cleanup_terminate"
  /\ audio' = "terminated"
  /\ pc' = "done"
  /\ UNCHANGED <<apVars, threads, open_in, open_out, n_in, n_out, mic_reads,
                 played, channelVars, eventVars, ret, histVars>>

\* ---- the specification of the program ---------------------------------------
ControlFlow ==
  \/ connect_ok \/ connect_fails \/ setup_session \/ setup_session_fails
  \/ interrupt \/ channel_closed \/ read_fails
  \/ handle_session_updated \/ handle_speech_started
  \/ response_cancel \/ response_cancel_fails
  \/ handle_speech_stopped \/ handle_audio_delta \/ handle_informational
  \/ cleanup_stop_capture \/ cleanup_stop_playback \/ cleanup_terminate

PlaybackLine ==
  \/ start_playback_enter \/ start_playback_open \/ start_playback_open_fails
  \/ start_playback_spawn \/ start_playback_spawn_fails
  \/ stop_playback_enter \/ stop_playback_drain \/ stop_playback_close
  \/ stop_playback_clear \/ stop_playback_join \/ stop_playback_join_timeout
  \/ \E t \in DOMAIN threads :
       \/ playback_loop(t) \/ playback_get(t) \/ playback_check(t)
       \/ playback_write(t) \/ playback_write_fails(t)

CaptureLine ==
  \/ start_capture_enter \/ start_capture_open \/ start_capture_open_fails
  \/ start_capture_spawn_capture \/ start_capture_spawn_capture_fails
  \/ start_capture_spawn_send \/ start_capture_spawn_send_fails
  \/ stop_capture_enter \/ stop_capture_close \/ stop_capture_clear
  \/ stop_capture_join_capture \/ stop_capture_join_capture_timeout
  \/ stop_capture_join_send \/ stop_capture_join_send_timeout
  \/ stop_capture_drain
  \/ \E t \in DOMAIN threads :
       \/ capture_loop(t) \/ capture_read(t) \/ capture_read_fails(t)
       \/ capture_check(t) \/ capture_put(t)
       \/ send_loop(t) \/ send_get(t) \/ send_check(t) \/ send_schedule(t)
  \/ loop_run_append

Next == ControlFlow \/ PlaybackLine \/ CaptureLine

Spec == Init /\ [][Next]_vars

\* ---- the capture line under any caller --------------------------------------
\* An AudioProcessor on an open connection whose caller awaits start_capture()
\* and stop_capture() in any order, one call at a time.
InitCaptureApi ==
  /\ is_capturing = FALSE /\ is_playing = FALSE
  /\ input_stream = None /\ output_stream = None
  /\ audio_queue = <<>> /\ audio_send_queue = <<>>
  /\ capture_thread = None /\ playback_thread = None /\ send_thread = None
  /\ loop = FALSE
  /\ threads = <<>>
  /\ audio = "acquired" /\ open_in = {} /\ open_out = {} /\ n_in = 0 /\ n_out = 0
  /\ mic_reads = 0 /\ played = <<>>
  /\ channel = "open" /\ session_update_sent = TRUE
  /\ loop_pending = <<>> /\ sent_audio = <<>>
  /\ session_ready = TRUE /\ pc = "api_idle" /\ ret = "none"
  /\ n_session_updated = 0 /\ n_speech_started = 0 /\ n_speech_stopped = 0
  /\ n_deltas = 0 /\ n_informational = 0 /\ inbound = <<AnyKind>>
  /\ cancels_owed = 0 /\ cancels_failed = 0
  /\ stops_returned = 0 /\ enq_epoch = <<>> /\ tx_put = <<>>
  /\ capture_starts = 0 /\ raised_in = "none"
  /\ api_calls = 0 /\ api_prev = "none" /\ api_cur = "none"

\* The caller makes its next call: api_prev and api_cur keep the last two
\* calls, raised_in whether the current one has raised.
api_call ==
  /\ pc = "api_idle"
  /\ api_calls < MaxApiCalls
  /\ \E m \in {"start_capture", "stop_capture"} :
       pc' = m /\ api_cur' = m
  /\ ret' = "api_idle"
  /\ api_calls' = api_calls + 1
  /\ api_prev' = api_cur
  /\ raised_in' = "none"
  /\ UNCHANGED <<apVars, threads, deviceVars, channelVars, eventVars,
                 cancels_owed, cancels_failed, stops_returned, enq_epoch, tx_put, capture_starts>>

NextCaptureApi == api_call \/ CaptureLine

SpecCaptureApi == InitCaptureApi /\ [][NextCaptureApi]_vars

\* ---- scenario A: a fixed event sequence, a working device --------------------
ScenarioA ==
  <<"SESSION_UPDATED", "INPUT_AUDIO_BUFFER_SPEECH_STARTED",
    "INPUT_AUDIO_BUFFER_SPEECH_STOPPED", "RESPONSE_AUDIO_DELTA",
    "RESPONSE_AUDIO_DELTA", "RESPONSE_AUDIO_DELTA", "RESPONSE_AUDIO_DONE",
    "RESPONSE_DONE">>

\* A fresh assistant whose connection delivers the events of ScenarioA and
\* then ends.
InitScenarioA ==
  /\ is_capturing = FALSE /\ is_playing = FALSE
  /\ input_stream = None /\ output_stream = None
  /\ audio_queue = <<>> /\ audio_send_queue = <<>>
  /\ capture_thread = None /\ playback_thread = None /\ send_thread = None
  /\ loop = FALSE
  /\ threads = <<>>
  /\ audio = "none" /\ open_in = {} /\ open_out = {} /\ n_in = 0 /\ n_out = 0
  /\ mic_reads = 0 /\ played = <<>>
  /\ channel = "none" /\ session_update_sent = FALSE
  /\ loop_pending = <<>> /\ sent_audio = <<>>
  /\ session_ready = FALSE /\ pc = "connect" /\ ret = "none"
  /\ n_session_updated = 0 /\ n_speech_started = 0 /\ n_speech_stopped = 0
  /\ n_deltas = 0 /\ n_informational = 0 /\ inbound = ScenarioA
  /\ cancels_owed = 0 /\ cancels_failed = 0
  /\ stops_returned = 0 /\ enq_epoch = <<>> /\ tx_put = <<>>
  /\ capture_starts = 0 /\ raised_in = "none"
  /\ api_calls = 0 /\ api_prev = "none" /\ api_cur = "none"

\* The program's steps when connecting, opening a stream, starting a thread,
\* reading the connection and writing to the device all succeed and no signal
\* arrives.  The microphone is silent: the read of line 137 blocks until it
\* raises, so no frame reaches the send queue.
NextScenarioA ==
  \/ connect_ok \/ setup_session \/ channel_closed
  \/ handle_session_updated \/ handle_speech_started
  \/ response_cancel \/ response_cancel_fails
  \/ handle_speech_stopped \/ handle_audio_delta \/ handle_informational
  \/ cleanup_stop_capture \/ cleanup_stop_playback \/ cleanup_terminate
  \/ start_playback_enter \/ start_playback_open \/ start_playback_spawn
  \/ stop_playback_enter \/ stop_playback_drain \/ stop_playback_close
  \/ stop_playback_clear \/ stop_playback_join \/ stop_playback_join_timeout
  \/ start_capture_enter \/ start_capture_open
  \/ start_capture_spawn_capture \/ start_capture_spawn_send
  \/ stop_capture_enter \/ stop_capture_close \/ stop_capture_clear
  \/ stop_capture_join_capture \/ stop_capture_join_capture_timeout
  \/ stop_capture_join_send \/ stop_capture_join_send_timeout
  \/ stop_capture_drain
  \/ \E t \in DOMAIN threads :
       \/ playback_loop(t) \/ playback_get(t) \/ playback_check(t)
       \/ playback_write(t)
       \/ capture_loop(t) \/ capture_read_fails(t)
       \/ send_loop(t) \/ send_get(t)

SpecScenarioA == InitScenarioA /\ [][NextScenarioA]_vars

\* ---- scheduling ---------------------------------------------------------------
\* The steps of stop_capture, stop_playback and cleanup: none of them awaits
\* the connection, so the control flow takes them as long as its thread runs.
StopAndCleanupStep ==
  \/ stop_capture_enter \/ stop_capture_close \/ stop_capture_clear
  \/ stop_capture_join_capture \/ stop_capture_join_capture_timeout
  \/ stop_capture_join_send \/ stop_capture_join_send_timeout
  \/ stop_capture_drain
  \/ stop_playback_enter \/ stop_playback_drain \/ stop_playback_close
  \/ stop_playback_clear \/ stop_playback_join \/ stop_playback_join_timeout
  \/ cleanup_stop_capture \/ cleanup_stop_playback \/ cleanup_terminate

\* The steps of the worker threads.
WorkerStep ==
  \E t \in DOMAIN threads :
    \/ playback_loop(t) \/ playback_get(t) \/ playback_check(t)
    \/ playback_write(t) \/ playback_write_fails(t)
    \/ capture_loop(t) \/ capture_read(t) \/ capture_read_fails(t)
    \/ capture_check(t) \/ capture_put(t)
    \/ send_loop(t) \/ send_get(t) \/ send_check(t) \/ send_schedule(t)

\* Scenario A with the control flow scheduled; a worker may be blocked for
\* ever, and so may the connection.
SpecScenarioAFair == SpecScenarioA /\ WF_vars(StopAndCleanupStep)

\* The workers are scheduled as well.
SpecFair == Spec /\ WF_vars(StopAndCleanupStep) /\ WF_vars(WorkerStep)

\* ---- properties -------------------------------------------------------------
PlayedFrames == [i \in DOMAIN played |-> played[i][1]]
SentFrames == [i \in DOMAIN sent_audio |-> sent_audio[i].b64]
Range(s) == {s[i] : i \in DOMAIN s}

\* C1: every frame written to the output device is written before any
\* stop_playback() returns that had not yet returned when queue_audio accepted
\* the frame (no frame enqueued before a stop_playback() is played after that
\* stop_playback() has returned), and no frame is written twice.
C1_NoStaleFrame ==
  /\ \A i \in DOMAIN played : played[i][2] = enq_epoch[played[i][1]]
  /\ \A i, j \in DOMAIN played : played[i][1] = played[j][1] => i = j

\* C2: whenever start() has finished, by returning or by raising, after the
\* AudioProcessor was created, the cleanup has run: capture is stopped,
\* playback is stopped and the audio device subsystem is released.
C2_CleanupBeforeStartFinishes ==
  (pc \in {"done", "raised"} /\ audio # "none") =>
    (~is_capturing /\ ~is_playing /\ audio = "terminated")

\* C3: when start() has finished after the event sequence ended because the
\* channel closed, capture is inactive, playback is inactive, both queues are
\* empty and the audio device subsystem has been released.
C3_ShutDownAfterChannelEnd ==
  (channel = "ended" /\ pc = "done") =>
    /\ ~is_capturing /\ ~is_playing
    /\ audio_queue = <<>> /\ audio_send_queue = <<>>
    /\ audio = "terminated"

\* C4: the SPEECH_STARTED handler issues its response-cancel after
\* stop_playback() has returned, with playback inactive and the playback queue
\* empty; when the handler returns, the queue is still empty, playback is still
\* inactive and exactly one cancel was attempted for the event; between two
\* events no cancel is owed and none was attempted in excess.
C4_SpeechStartedHandled ==
  /\ [](pc = "cancel" => (~is_playing /\ audio_queue = <<>> /\ cancels_owed = 1))
  /\ [](pc = "await_event" => cancels_owed = 0)
  /\ [][(pc = "cancel" /\ pc' # "cancel") =>
          /\ pc' = "await_event"
          /\ ~is_playing' /\ audio_queue' = <<>>
          /\ cancels_owed' = 0]_vars

\* a SPEECH_STARTED handler has returned that found playback active with two
\* frames accepted by queue_audio, none of which was played
C4_Witness ==
  /\ pc = "await_event" /\ n_speech_started = 1 /\ stops_returned = 1
  /\ enq_epoch = <<0, 0>> /\ played = <<>>
  /\ audio_queue = <<>> /\ ~is_playing

\* C5: the capture line goes from not-capturing to capturing at most once, with
\* at most one input stream opened, one capture worker and one send worker
\* spawned; once a SESSION_UPDATED handler has returned, it is exactly once and
\* exactly one of each, however many SESSION_UPDATED events were handled.
C5_CaptureStartsOnce ==
  /\ capture_starts <= 1 /\ n_in <= 1
  /\ Cardinality(ThreadsOf("capture")) <= 1
  /\ Cardinality(ThreadsOf("send")) <= 1
  /\ (n_session_updated >= 1 /\ pc = "await_event") =>
       /\ is_capturing /\ capture_starts = 1 /\ n_in = 1
       /\ Cardinality(ThreadsOf("capture")) = 1
       /\ Cardinality(ThreadsOf("send")) = 1

\* the handler of a second SESSION_UPDATED has returned
C5_Witness ==
  /\ n_session_updated = 2 /\ pc = "await_event"
  /\ is_capturing /\ capture_starts = 1

\* C6: a stop_capture() called right after a stop_capture(), or on a line that
\* was never started, returns in its first step without raising, changes no
\* field of the capture line, closes no stream, ends no worker, leaves the
\* send queue alone, and the line is inactive.
C6_StopCaptureIdempotent ==
  [][(/\ pc' # pc
      /\ pc # "api_idle"
      /\ api_cur = "stop_capture"
      /\ (api_prev = "stop_capture" \/ capture_starts = 0)) =>
        /\ pc' = "api_idle" /\ raised_in' = "none"
        /\ ~is_capturing'
        /\ UNCHANGED <<captureFields, audio_send_queue, open_in, threads>>]_vars

\* a second stop_capture() in a row has returned on a line that was started
C6_Witness ==
  /\ pc = "api_idle" /\ api_calls = 3 /\ capture_starts = 1
  /\ api_prev = "stop_capture" /\ api_cur = "stop_capture"
  /\ raised_in = "none"

\* stop_capture() of the cleanup (line 352) has returned
StopCaptureReturned ==
  \/ pc \in {"cleanup_stop_playback", "cleanup_terminate", "done"}
  \/ ret = "cleanup_terminate"

\* C7: after stop_capture() has returned, the send queue is empty and no
\* audio-append command can be issued on the channel.
C7_NothingAfterStopCapture ==
  StopCaptureReturned =>
    /\ audio_send_queue = <<>>
    /\ (channel # "open" \/ loop_pending = <<>>)

\* C8: after start_capture() has raised, the capture line is as before the
\* call: not capturing, no input stream referenced or open, no capture or send
\* worker running.
C8_FailedStartCaptureRestores ==
  raised_in = "start_capture" =>
    /\ ~is_capturing
    /\ input_stream = None /\ open_in = {}
    /\ AliveOf("capture") = {} /\ AliveOf("send") = {}

C10_FifoToChannel ==
  /\ Increasing(tx_put)
  /\ Increasing(SentFrames)
  /\ Range(SentFrames) \subseteq Range(tx_put)
  /\ Range(tx_put) \subseteq 1..mic_reads

\* two audio-append commands are on the channel
C10_Witness == Len(sent_audio) = 2

\* C11: queue_audio appends the frame at the tail of the playback queue when
\* playback is active; when it is inactive the handler of the delta changes
\* nothing in either line, either queue, the device or the channel and returns
\* to the event loop without raising; a frame that arrived while playback was
\* inactive is never written to the device.
C11_QueueAudioOnlyWhenPlaying ==
  /\ [][n_deltas' = n_deltas + 1 =>
          /\ audio_queue' = (IF is_playing THEN Append(audio_queue, n_deltas + 1)
                                          ELSE audio_queue)
          /\ pc = "await_event" /\ pc' = "await_event"
          /\ UNCHANGED <<captureSide, playbackFields, threads, deviceVars,
                         channelVars, session_ready, raised_in>>]_vars
  /\ [](\A i \in DOMAIN played : enq_epoch[played[i][1]] # -1)

\* a delta arrived between SPEECH_STARTED and SPEECH_STOPPED, playback is
\* active again, and nothing is queued or was played
C11_Witness ==
  /\ enq_epoch = <<-1>> /\ n_speech_started = 1 /\ n_speech_stopped = 1
  /\ pc = "await_event" /\ is_playing /\ AliveOf("playback") # {}
  /\ audio_queue = <<>> /\ played = <<>>

\* C12: in scenario A no handler raises; capture has started once before
\* SPEECH_STARTED is handled; playback has stopped and the cancel was attempted
\* before SPEECH_STOPPED is handled; playback has restarted before the first
\* delta is handled; the three deltas are accepted by queue_audio after that
\* stop and are written to the device in the order received.
C12_ScenarioAEffects ==
  /\ pc # "raised" /\ raised_in = "none"
  /\ n_speech_started >= 1 => (capture_starts = 1 /\ n_in = 1)
  /\ n_speech_stopped >= 1 =>
       (stops_returned >= 1 /\ cancels_owed = 0 /\ n_out >= 1)
  /\ n_deltas >= 1 => n_out = 2
  /\ \A i \in DOMAIN enq_epoch : enq_epoch[i] = 1
  /\ Increasing(PlayedFrames)

\* C14: the frames are written to the output device in the order queue_audio
\* accepted them.
C14_PlaybackFifo ==
  \A i, j \in DOMAIN played : i < j => played[i][1] < played[j][1]

\* the capture worker has ended on a failed read (the line is capturing and
\* its stream is open), or a playback worker has ended on a failed write,
\* while the control flow waits for the next event
WorkerHitDeviceFailure ==
  /\ pc = "await_event"
  /\ \/ /\ is_capturing /\ input_stream \in open_in
        /\ \E t \in ThreadsOf("capture") : ~Alive(t)
     \/ /\ is_playing /\ output_stream \in open_out
        /\ playback_thread \in DOMAIN threads /\ ~Alive(playback_thread)

\* the line of the failed worker has stopped itself
FailedLineStopped ==
  \/ ~is_capturing /\ AliveOf("send") = {}
  \/ ~is_playing

\* C13: once a worker has ended on a device failure, the line it belongs to
\* stops itself while the program runs on: its running flag becomes false and
\* (for capture) the send worker ends.
C13_FailedLineStopsItself ==
  WorkerHitDeviceFailure ~> (FailedLineStopped \/ ~ProcessAlive)

InStopCapture ==
  pc \in {"stop_capture", "xc_close", "xc_clear", "xc_join_capture",
          "xc_join_send", "xc_drain"}
InStopPlayback ==
  pc \in {"stop_playback", "xp_drain", "xp_close", "xp_clear", "xp_join"}

\* C15: stop_capture(), stop_playback() and cleanup() always return, whether
\* or not any worker ever takes another step.
C15_StopsReturn ==
  /\ InStopCapture ~> ~InStopCapture
  /\ InStopPlayback ~> ~InStopPlayback
  /\ (pc = "cleanup") ~> (pc = "done")

\* cleanup has returned although a capture, a send and a playback worker were
\* still alive at each join
C15_Witness ==
  /\ pc = "done"
  /\ AliveOf("capture") # {} /\ AliveOf("send") # {} /\ AliveOf("playback") # {}

\* C16: a response-cancel that raises is swallowed: the SPEECH_STARTED handler
\* returns to the event loop without raising, the connection stays as it was,
\* and playback stays stopped.
C16_FailedCancelSwallowed ==
  [][cancels_failed' = cancels_failed + 1 =>
       /\ pc = "cancel" /\ pc' = "await_event"
       /\ ~is_playing /\ ~is_playing'
       /\ raised_in' = "none" /\ channel' = channel /\ channel = "open"]_vars

\* after a cancel that raised, the next event (SPEECH_STOPPED) was read and
\* handled: playback is active again
C16_Witness ==
  /\ cancels_failed = 1 /\ n_speech_started = 1 /\ n_speech_stopped = 1
  /\ pc = "await_event" /\ is_playing /\ n_out = 2

\* C17: handling an event of one of the kinds that are only logged changes
\* neither line, neither queue, no worker, the device, the session flags or
\* the connection, sends nothing, and leaves the control flow at the read of
\* the next event.
C17_InformationalEventsChangeNothing ==
  [][n_informational' = n_informational + 1 =>
       /\ pc = "await_event" /\ pc' = "await_event"
       /\ UNCHANGED <<apVars, threads, deviceVars, channelVars, session_ready,
                      ret, raised_in, cancels_owed>>]_vars

\* two such events were handled and a delta was accepted: an event was handled
\* after an informational one
C17_Witness ==
  /\ n_informational = 2 /\ n_deltas = 1 /\ enq_epoch = <<0>>
  /\ pc = "await_event" /\ is_playing

\* C18: an event is read only when no handler is in progress: the control
\* flow is at the read of line 392, every call made by the previous handler
\* has returned and its cancel has been attempted.
C18_OneHandlerAtATime ==
  [][NEvents' # NEvents =>
       /\ NEvents' = NEvents + 1
       /\ pc = "await_event" /\ ret = "none" /\ cancels_owed = 0]_vars

\* three events were handled, among them a SESSION_UPDATED and a
\* SPEECH_STARTED with the calls they await
C18_Witness ==
  /\ NEvents = 3 /\ n_session_updated = 1 /\ n_speech_started = 1
  /\ pc = "await_event" /\ is_capturing /\ stops_returned = 1

\* C19: whenever a playback worker executes the write of line 233, the output
\* stream is referenced by self.output_stream and open.
C19_WriteOnlyOnOpenStream ==
  [][\A t \in DOMAIN threads :
       (/\ threads[t].kind = "playback"
        /\ threads[t].pc = "write" /\ threads'[t].pc # "write") =>
         (output_stream # None /\ output_stream \in open_out)]_vars

\* the playback workers inside the loop body, at or after the pop of line 230
PoppingWorkers ==
  {t \in AliveOf("playback") : threads[t].pc \in {"get", "check", "write"}}

\* C20: at most one playback worker is alive and popping from the playback
\* queue.
C20_OnePoppingWorker == Cardinality(PoppingWorkers) <= 1

\* C21: capture starts only in a call made by the SESSION_UPDATED handler; an
\* audio-append command is scheduled or issued only after the session update
\* was sent and a SESSION_UPDATED was read, and goes out on the channel only
\* once the handler of that event has returned.
C21_AudioOnlyAfterSessionUpdated ==
  /\ [](capture_starts >= 1 => (n_session_updated >= 1 /\ session_ready))
  /\ []((loop_pending # <<>> \/ sent_audio # <<>>) =>
          (session_update_sent /\ n_session_updated >= 1 /\ session_ready
             /\ capture_starts >= 1))
  /\ [][capture_starts' # capture_starts =>
          (pc = "start_capture" /\ ret = "await_event"
             /\ n_session_updated >= 1 /\ session_update_sent)]_vars
  /\ [][sent_audio' # sent_audio =>
          (pc \in {"await_event", "cancel"} /\ n_session_updated >= 1
             /\ session_update_sent)]_vars

\* an audio-append command is on the channel, after the one SESSION_UPDATED
C21_Witness ==
  /\ Len(sent_audio) >= 1 /\ n_session_updated = 1 /\ capture_starts = 1
  /\ session_update_sent /\ pc = "await_event"

=============================================================================
